---- MODULE Spec2Model ----
(***************************************************************************)
(* A model of goofy-animals (src/src/lib.rs): the GoofyAnimals word store, *)
(* its two constructors, and the name generator driven by a caller-        *)
(* supplied random number generator.                                       *)
(*                                                                         *)
(* The random number generator is deterministic in its state: it is a      *)
(* cyclic stream of raw values, fixed when the generator is seeded, and a  *)
(* position in that stream.  Rust slices are indexed from 0, TLA+          *)
(* sequences from 1: Index does the conversion.                            *)
(***************************************************************************)
EXTENDS Integers, Sequences, FiniteSets, TLC

\* ------------------------------------------------------------------ bounds

\* The longest word list given to a constructor.
MaxLen == 2
\* The period of the random number generator's raw stream.
StreamLen == 4
\* The number of generation calls made between two seedings.
MaxCalls == 2

\* The words the lists are made of; "" is what a trailing newline splits into.
Words == {"", "a", "b"}

Lists == UNION {[1..n -> Words] : n \in 0..MaxLen}

\* Raw values: enough of them that every index of the longest list is drawn.
RawValues == 0..(MaxLen - 1)

Streams == [1..StreamLen -> RawValues]

\* Where the per-call counters of draws stop counting.  A call that returns
\* never gets there: the loop revisits a generator state within StreamLen
\* iterations, and from then on repeats itself.
PairCap == StreamLen + 1
DrawCap == 2 * PairCap + 1

VARIABLES
    ctor,         \* which constructor was called: "none", "new", "new_unchecked"
    args,         \* the lists the constructor was given: <<animals, adjectives>>
    store,        \* <<>> while there is no GoofyAnimals, else <<the struct>>
    panic,        \* "" or the message of the panic that ended the process
    tracing,      \* whether the "tracing" feature is compiled in
    stream,       \* the generator's raw stream (fixed by the seed)
    rng,          \* the generator's state: a position in the stream
    pc,           \* "start", "idle", "loop", "animal", "panicked"
    op,           \* the call in progress: "none", "parts", "name"
    adjective_one,
    adjective_two,
    rngStart,     \* the generator's state when the call in progress began
    pairs,        \* loop iterations of the call in progress
    draws,        \* gen_range calls that returned, in the call in progress
    results,      \* what the calls since the last seeding returned
    events,       \* the "generated name" events since the last seeding
    prevResults,  \* results of the run before the last seeding
    prevTracing   \* tracing of the run before the last seeding

vars == <<ctor, args, store, panic, tracing, stream, rng, pc, op,
          adjective_one, adjective_two, rngStart, pairs, draws,
          results, events, prevResults, prevTracing>>

\* ------------------------------------------------------- pure functions

Min(a, b) == IF a < b THEN a ELSE b

\* slice[i], i counted from 0.
Index(slice, i) == slice[i + 1]

InBounds(slice, i) == i >= 0 /\ i < Len(slice)

\* slice.last().unwrap()
Last(slice) == slice[Len(slice)]

\* new with `total_adjectives < 1` for `total_adjectives < 2`.
NewPanicOneAdjective(animals, adjectives) ==
    IF Len(animals) < 1 THEN "empty animals"
    ELSE IF Len(adjectives) < 1 THEN "must have at least two adjectives"
    ELSE IF Last(animals) = "" THEN "trailing newline in animals"
    ELSE IF Last(adjectives) = "" THEN "trailing newline in adjectives"
    ELSE ""

\* new with the trailing-newline check of the animals made on the
\* adjectives a second time.
NewPanicAdjectivesTwice(animals, adjectives) ==
    IF Len(animals) < 1 THEN "empty animals"
    ELSE IF Len(adjectives) < 2 THEN "must have at least two adjectives"
    ELSE IF Last(adjectives) = "" THEN "trailing newline in animals"
    ELSE IF Last(adjectives) = "" THEN "trailing newline in adjectives"
    ELSE ""

\* new with the trailing-newline check of the adjectives made on the
\* animals a second time.
NewPanicAnimalsTwice(animals, adjectives) ==
    IF Len(animals) < 1 THEN "empty animals"
    ELSE IF Len(adjectives) < 2 THEN "must have at least two adjectives"
    ELSE IF Last(animals) = "" THEN "trailing newline in animals"
    ELSE IF Last(animals) = "" THEN "trailing newline in adjectives"
    ELSE ""

\* The checks of GoofyAnimals::new, in order: the panic message, "" for none.
NewPanic(animals, adjectives) ==
    LET total_animals == Len(animals)
        total_adjectives == Len(adjectives)
    IN  IF total_animals < 1 THEN "empty animals"
        ELSE IF total_adjectives < 2 THEN "must have at least two adjectives"
        ELSE IF Last(animals) = "" THEN "trailing newline in animals"
        ELSE IF Last(adjectives) = "" THEN "trailing newline in adjectives"
        ELSE ""

\* Self { animals, adjectives }
NewUncheckedValue(animals, adjectives) ==
    [animals |-> animals, adjectives |-> adjectives]

\* gen_range over the inclusive range 0..=n.
GenRangeInclusive(r, n) ==
    [panics |-> FALSE, value |-> stream[r + 1] % (n + 1),
     rng |-> (r + 1) % Len(stream)]

\* gen_range that clamps an empty range to one value instead of panicking.
GenRangeClamped(r, n) ==
    [panics |-> FALSE, value |-> IF n = 0 THEN 0 ELSE stream[r + 1] % n,
     rng |-> (r + 1) % Len(stream)]

\* gen_range whose value also depends on what an earlier run left behind.
GenRangeStale(r, n) ==
    IF n = 0
    THEN [panics |-> TRUE, value |-> 0, rng |-> r]
    ELSE [panics |-> FALSE, value |-> (stream[r + 1] + Len(prevResults)) % n,
          rng |-> (r + 1) % Len(stream)]

\* rng.gen_range(0..n) from generator state r: an empty range panics before
\* anything is drawn; otherwise the value drawn, in [0, n), and the
\* generator's next state.
GenRange(r, n) ==
    IF n = 0
    THEN [panics |-> TRUE, value |-> 0, rng |-> r]
    ELSE [panics |-> FALSE, value |-> stream[r + 1] % n,
          rng |-> (r + 1) % Len(stream)]

\* `if one == two { continue; }`
Collides(one, two) == one = two

\* The template with a hyphen after the animal as well.
NameTemplateTrailing ==
    << [kind |-> "arg", arg |-> 1, lit |-> ""],
       [kind |-> "lit", arg |-> 0, lit |-> "-"],
       [kind |-> "arg", arg |-> 2, lit |-> ""],
       [kind |-> "lit", arg |-> 0, lit |-> "-"],
       [kind |-> "arg", arg |-> 3, lit |-> ""],
       [kind |-> "lit", arg |-> 0, lit |-> "-"] >>

\* The template of format!("{adjective_one}-{adjective_two}-{animal}").
NameTemplate ==
    << [kind |-> "arg", arg |-> 1, lit |-> ""],
       [kind |-> "lit", arg |-> 0, lit |-> "-"],
       [kind |-> "arg", arg |-> 2, lit |-> ""],
       [kind |-> "lit", arg |-> 0, lit |-> "-"],
       [kind |-> "arg", arg |-> 3, lit |-> ""] >>

\* format!: the pieces of the template written out left to right.
RECURSIVE Format(_, _)
Format(template, fmtArgs) ==
    IF template = <<>> THEN ""
    ELSE LET piece == Head(template)
             text == IF piece.kind = "arg" THEN fmtArgs[piece.arg] ELSE piece.lit
         IN  text \o Format(Tail(template), fmtArgs)

\* The tuple with the two adjectives in the wrong order.
PartsSwapped(s, one, two, animal) ==
    << s.adjectives[two + 1], s.adjectives[one + 1], s.animals[animal + 1] >>

\* The tuple generate_name_parts returns for three indices.
Parts(s, one, two, animal) ==
    << Index(s.adjectives, one), Index(s.adjectives, two), Index(s.animals, animal) >>

\* What generate_name makes of the tuple; generate_name_parts makes no string.
NameOf(which, parts) ==
    IF which = "name" THEN Format(NameTemplate, parts) ELSE ""

\* The trace event with the animal's index left out.
TraceEventNoAnimal(one, two, animal) == <<one, two>>

\* The trace event of one call.
TraceEvent(one, two, animal) == <<one, two, animal>>

\* ------------------------------------------------------------------ Init

Init ==
    /\ ctor = "none"
    /\ args = << <<>>, <<>> >>
    /\ store = <<>>
    /\ panic = ""
    /\ tracing \in BOOLEAN
    /\ stream \in Streams
    /\ rng = 0
    /\ pc = "start"
    /\ op = "none"
    /\ adjective_one = 0
    /\ adjective_two = 0
    /\ rngStart = 0
    /\ pairs = 0
    /\ draws = 0
    /\ results = <<>>
    /\ events = <<>>
    /\ prevResults = <<>>
    /\ prevTracing = tracing

\* --------------------------------------------------------------- actions

Abort(msg) ==
    /\ pc' = "panicked"
    /\ panic' = msg

\* GoofyAnimals::new(animals, adjectives)
New(animals, adjectives) ==
    /\ pc = "start"
    /\ ctor' = "new"
    /\ args' = <<animals, adjectives>>
    /\ IF NewPanic(animals, adjectives) # ""
       THEN /\ Abort(NewPanic(animals, adjectives))
            /\ store' = <<>>
       ELSE /\ pc' = "idle"
            /\ panic' = ""
            /\ store' = << NewUncheckedValue(animals, adjectives) >>
    /\ UNCHANGED <<tracing, stream, rng, op, adjective_one, adjective_two,
                   rngStart, pairs, draws, results, events, prevResults,
                   prevTracing>>

\* GoofyAnimals::new_unchecked(animals, adjectives)
NewUnchecked(animals, adjectives) ==
    /\ pc = "start"
    /\ ctor' = "new_unchecked"
    /\ args' = <<animals, adjectives>>
    /\ pc' = "idle"
    /\ store' = << NewUncheckedValue(animals, adjectives) >>
    /\ UNCHANGED <<panic, tracing, stream, rng, op, adjective_one,
                   adjective_two, rngStart, pairs, draws, results, events,
                   prevResults, prevTracing>>

\* Entry of generate_name_parts (which = "parts") or of generate_name
\* (which = "name", which calls generate_name_parts first).
Enter(which) ==
    /\ pc = "idle"
    /\ Len(results) < MaxCalls
    /\ op' = which
    /\ pc' = "loop"
    /\ rngStart' = rng
    /\ pairs' = 0
    /\ draws' = 0
    /\ UNCHANGED <<ctor, args, store, panic, tracing, stream, rng,
                   adjective_one, adjective_two, results, events,
                   prevResults, prevTracing>>

CallGenerateNameParts == Enter("parts")

CallGenerateName == Enter("name")

\* One iteration of the distinct-pair loop of generate_name_parts.
LoopIteration ==
    /\ pc = "loop"
    /\ LET self == store[1]
           one == GenRange(rng, Len(self.adjectives))
           two == GenRange(one.rng, Len(self.adjectives))
       IN  IF one.panics \/ two.panics
           THEN /\ Abort("cannot sample empty range")
                /\ UNCHANGED <<rng, adjective_one, adjective_two, pairs, draws>>
           ELSE     /\ rng' = two.rng
                    /\ pairs' = Min(pairs + 1, PairCap)
                    /\ draws' = Min(draws + 2, DrawCap)
                    /\ panic' = panic
                    /\ IF Collides(one.value, two.value)
                       THEN /\ pc' = "loop"
                            /\ UNCHANGED <<adjective_one, adjective_two>>
                       ELSE /\ pc' = "animal"
                            /\ adjective_one' = one.value
                            /\ adjective_two' = two.value
    /\ UNCHANGED <<ctor, args, store, tracing, stream, op, rngStart, results,
                   events, prevResults, prevTracing>>

\* The rest of generate_name_parts after the loop: the animal draw, the trace
\* event, the three slice reads and the return; for generate_name, the
\* format! as well.
Finish ==
    /\ pc = "animal"
    /\ LET self == store[1]
           drawn == GenRange(rng, Len(self.animals))
       IN  IF drawn.panics
           THEN /\ Abort("cannot sample empty range")
                /\ UNCHANGED <<rng, draws, events, results, op>>
           ELSE LET animal == drawn.value
                    emitted == IF tracing
                               THEN Append(events, TraceEvent(adjective_one, adjective_two, animal))
                               ELSE events
                IN  /\ rng' = drawn.rng
                    /\ draws' = Min(draws + 1, DrawCap)
                    /\ events' = emitted
                    /\ IF /\ InBounds(self.adjectives, adjective_one)
                          /\ InBounds(self.adjectives, adjective_two)
                          /\ InBounds(self.animals, animal)
                       THEN LET parts == Parts(self, adjective_one, adjective_two, animal)
                            IN  /\ results' = Append(results,
                                       [op |-> op,
                                        idx |-> <<adjective_one, adjective_two, animal>>,
                                        parts |-> parts,
                                        name |-> NameOf(op, parts),
                                        rngBefore |-> rngStart,
                                        rngAfter |-> drawn.rng,
                                        pairs |-> pairs,
                                        draws |-> Min(draws + 1, DrawCap)])
                                /\ pc' = "idle"
                                /\ op' = "none"
                                /\ panic' = panic
                       ELSE /\ Abort("index out of bounds")
                            /\ UNCHANGED <<results, op>>
    /\ UNCHANGED <<ctor, args, store, tracing, stream, adjective_one,
                   adjective_two, rngStart, pairs, prevResults, prevTracing>>

\* A new run from the same seed (ChaCha20Rng::seed_from_u64(0x1337) at the
\* head of each test), in a build with or without the tracing feature.
Reseed ==
    /\ pc = "idle"
    /\ rng' = 0
    /\ prevResults' = results
    /\ prevTracing' = tracing
    /\ tracing' \in BOOLEAN
    /\ results' = <<>>
    /\ events' = <<>>
    /\ UNCHANGED <<ctor, args, store, panic, stream, pc, op, adjective_one,
                   adjective_two, rngStart, pairs, draws>>

Next ==
    \/ \E animals \in Lists, adjectives \in Lists : New(animals, adjectives)
    \/ \E animals \in Lists, adjectives \in Lists : NewUnchecked(animals, adjectives)
    \/ CallGenerateNameParts
    \/ CallGenerateName
    \/ LoopIteration
    \/ Finish
    \/ Reseed

Spec == Init /\ [][Next]_vars

\* A call in progress runs on: generate_name_parts has no suspension point.
FairSpec == Spec /\ WF_vars(LoopIteration) /\ WF_vars(Finish)

\* ---------------------------------------------------------------- claims

\* The store GoofyAnimals::new returned.
Accepted == ctor = "new" /\ store # <<>>

Unchecked == ctor = "new_unchecked" /\ store # <<>>

\* The raw value the generator gives at the p-th position counted from 0.
Raw(p) == stream[(p % StreamLen) + 1]

Entries(log) == {log[i] : i \in DOMAIN log}

\* C1: on a store accepted by new, the two adjective strings a call returns
\* are never equal.
C1_AdjectivesDiffer ==
    Accepted => \A e \in Entries(results) : e.parts[1] # e.parts[2]

\* C2: on a store accepted by new, every index used is within its list, no
\* call panics, and the words returned are the entries at those indices:
\* two of the adjective list, then one of the animal list.
C2_WordsAreEntries ==
    Accepted =>
        /\ pc # "panicked"
        /\ pc = "animal" =>
              /\ adjective_one \in 0..(Len(store[1].adjectives) - 1)
              /\ adjective_two \in 0..(Len(store[1].adjectives) - 1)
        /\ \A e \in Entries(results) :
              /\ e.idx[1] \in 0..(Len(store[1].adjectives) - 1)
              /\ e.idx[2] \in 0..(Len(store[1].adjectives) - 1)
              /\ e.idx[3] \in 0..(Len(store[1].animals) - 1)
              /\ e.parts[1] = store[1].adjectives[e.idx[1] + 1]
              /\ e.parts[2] = store[1].adjectives[e.idx[2] + 1]
              /\ e.parts[3] = store[1].animals[e.idx[3] + 1]

C2_Witness ==
    /\ Accepted
    /\ Len(results) = MaxCalls
    /\ \E e \in Entries(results) : e.idx[3] = 1 /\ e.idx[1] = 1

\* The three conditions under which construction must fail.
Rejectable(animals, adjectives) ==
    \/ Len(animals) = 0
    \/ Len(adjectives) < 2
    \/ (Len(animals) > 0 /\ animals[Len(animals)] = "")
    \/ (Len(adjectives) > 0 /\ adjectives[Len(adjectives)] = "")

\* C3: new panics and yields no store when the animal list is empty, there
\* are fewer than two adjectives, or the last entry of either list is "";
\* a store new returns violates none of the three.
C3_NewRejects ==
    ctor = "new" =>
        /\ Rejectable(args[1], args[2]) =>
              pc = "panicked" /\ panic # "" /\ store = <<>>
        /\ store # <<>> =>
              /\ store[1].animals = args[1]
              /\ store[1].adjectives = args[2]
              /\ ~Rejectable(store[1].animals, store[1].adjectives)

C3_Witness ==
    /\ ctor = "new"
    /\ pc = "panicked"
    /\ store = <<>>
    /\ Len(args[1]) = MaxLen
    /\ args[1][MaxLen] = ""
    /\ Len(args[2]) = MaxLen
    /\ args[2][MaxLen] # ""

\* C4: generate_name returns adj1, "-", adj2, "-", animal and nothing else,
\* for the triple generate_name_parts returns from the same generator state,
\* and leaves the generator where generate_name_parts leaves it.
C4_NameIsJoinedParts ==
    Accepted =>
        \A e \in Entries(results) \cup Entries(prevResults) :
            e.op = "name" =>
                /\ e.name = e.parts[1] \o "-" \o e.parts[2] \o "-" \o e.parts[3]
                /\ \A f \in Entries(results) \cup Entries(prevResults) :
                      (f.op = "parts" /\ f.rngBefore = e.rngBefore) =>
                          /\ f.parts = e.parts
                          /\ f.rngAfter = e.rngAfter
                          /\ f.draws = e.draws

C4_Witness ==
    /\ Accepted
    /\ Len(prevResults) = MaxCalls
    /\ Len(results) = MaxCalls
    /\ prevResults[1].op = "parts"
    /\ results[1].op = "name"
    /\ results[1].name = "b-a-b"
    /\ prevResults[MaxCalls].op = "name"
    /\ results[MaxCalls].op = "parts"

\* C5: two runs from the same store and the same generator state that make
\* the same calls return the same triples, call by call, and leave the
\* generator in the same state.
C5_Deterministic ==
    store # <<>> =>
        \A i \in DOMAIN results \cap DOMAIN prevResults :
            (\A j \in 1..i : results[j].op = "parts" /\ prevResults[j].op = "parts") =>
                /\ results[i].parts = prevResults[i].parts
                /\ results[i].idx = prevResults[i].idx
                /\ results[i].rngBefore = prevResults[i].rngBefore
                /\ results[i].rngAfter = prevResults[i].rngAfter

C5_Witness ==
    /\ Accepted
    /\ Len(results) = MaxCalls
    /\ Len(prevResults) = MaxCalls
    /\ \A j \in 1..MaxCalls : results[j].op = "parts" /\ prevResults[j].op = "parts"
    /\ results[1].parts # results[MaxCalls].parts
    /\ results[1].pairs > 1

\* The pair of adjective indices the loop draws from generator state r.
PairDiffers(r, n) ==
    Raw(r) % n # Raw(r + 1) % n

\* From state r the generator does not return equal pairs in 0..n-1 for ever.
FairFrom(r, n) ==
    \E j \in 0..(StreamLen - 1) : PairDiffers(r + 2 * j, n)

\* The generator is fair for a list of k adjectives: from its present state
\* it does not return equal pairs for ever.  No generator returns unequal
\* indices into a list of one, so fairness is never asked for less than two.
FairRng == FairFrom(rng, IF Len(store[1].adjectives) < 2 THEN 2 ELSE Len(store[1].adjectives))

\* C6: on a store accepted by new and with a fair generator, a call of
\* generate_name_parts that is in its retry loop eventually returns.
C6_CallReturns ==
    (Accepted /\ pc = "loop" /\ FairRng) ~> (pc = "idle" /\ results # <<>>)

C6_Witness ==
    /\ Accepted
    /\ FairRng
    /\ pc = "idle"
    /\ Len(results) = MaxCalls
    /\ results[MaxCalls].pairs > 1

\* The store was built unchecked and a call is about to draw against a list
\* of length zero.
AtEmptyDraw ==
    /\ Unchecked
    /\ \/ pc = "loop" /\ store[1].adjectives = <<>>
       \/ pc = "animal" /\ store[1].animals = <<>>

\* C7: on an unchecked store with an empty list, no call ever returns a
\* triple; the draw against the empty list, once reached, is a panic that
\* consumes no draw and does not go round the loop again; and the call does
\* end in that panic.
C7_EmptyListAborts ==
    /\ [][ (Unchecked /\ (store[1].animals = <<>> \/ store[1].adjectives = <<>>)) =>
            /\ results' = <<>>
            /\ pc' # "idle" \/ pc = "idle"
            /\ AtEmptyDraw => (pc' = "panicked" /\ rng' = rng /\ panic' # "") ]_vars
    /\ AtEmptyDraw ~> (pc = "panicked" /\ results = <<>>)

C7_Witness ==
    /\ Unchecked
    /\ store[1].animals = <<>>
    /\ Len(store[1].adjectives) = MaxLen
    /\ pc = "panicked"
    /\ panic = "cannot sample empty range"
    /\ pairs > 1

\* C8 as stated: every entry of both lists of a store new returns is not "".
C8_NoEmptyWord ==
    Accepted =>
        /\ \A i \in DOMAIN store[1].animals : store[1].animals[i] # ""
        /\ \A i \in DOMAIN store[1].adjectives : store[1].adjectives[i] # ""

\* C8 as amended: the last entry of each list of a store new returns is not
\* ""; the entries before the last are not checked.
C8_LastWordNotEmpty ==
    Accepted =>
        /\ store[1].animals # <<>>
        /\ store[1].adjectives # <<>>
        /\ store[1].animals[Len(store[1].animals)] # ""
        /\ store[1].adjectives[Len(store[1].adjectives)] # ""

C8_Witness ==
    /\ Accepted
    /\ store[1].animals[1] = ""
    /\ store[1].adjectives[1] = ""
    /\ \E e \in Entries(results) : e.name = "-a-"

\* C9: a call that returns on a store accepted by new drew m >= 1 pairs of
\* adjective indices, first index then second, the first m - 1 of them equal
\* pairs, then one animal index: 2m + 1 draws.  It returns the adjectives at
\* the last pair's indices, in draw order, and the animal at the last draw.
C9_DrawOrder ==
    Accepted =>
        \A e \in Entries(results) :
            LET m == e.pairs
                k == Len(store[1].adjectives)
                b == e.rngBefore
            IN  /\ m >= 1
                /\ m <= StreamLen
                /\ e.draws = 2 * m + 1
                /\ e.rngAfter = (b + 2 * m + 1) % StreamLen
                /\ \A j \in 0..(m - 2) : Raw(b + 2 * j) % k = Raw(b + 2 * j + 1) % k
                /\ e.idx[1] = Raw(b + 2 * (m - 1)) % k
                /\ e.idx[2] = Raw(b + 2 * (m - 1) + 1) % k
                /\ e.idx[1] # e.idx[2]
                /\ e.idx[3] = Raw(b + 2 * m) % Len(store[1].animals)
                /\ e.parts = << store[1].adjectives[e.idx[1] + 1],
                                store[1].adjectives[e.idx[2] + 1],
                                store[1].animals[e.idx[3] + 1] >>

C9_Witness ==
    /\ Accepted
    /\ \E e \in Entries(results) :
          /\ e.pairs = 2
          /\ e.idx[1] = 1
          /\ e.idx[2] = 0
          /\ e.parts[1] # e.parts[2]

\* C10: with tracing compiled in, the calls that returned and the "generated
\* name" events are one to one, each event carries the three indices of the
\* words its call returned, and a call that aborted emitted none; the triples
\* are those of a run without tracing.
C10_OneEventPerCall ==
    store # <<>> =>
        /\ tracing =>
              /\ Len(events) = Len(results)
              /\ \A i \in DOMAIN events :
                    /\ Len(events[i]) = 3
                    /\ events[i] = results[i].idx
                    /\ results[i].parts[1] = store[1].adjectives[events[i][1] + 1]
                    /\ results[i].parts[2] = store[1].adjectives[events[i][2] + 1]
                    /\ results[i].parts[3] = store[1].animals[events[i][3] + 1]
        /\ tracing # prevTracing =>
              \A i \in DOMAIN results \cap DOMAIN prevResults :
                  results[i].parts = prevResults[i].parts

C10_Witness ==
    /\ Accepted
    /\ tracing
    /\ ~prevTracing
    /\ Len(prevResults) = MaxCalls
    /\ Len(events) = MaxCalls
    /\ results[1].pairs > 1

\* C10, the aborting call: tracing is on and a call aborted at the animal
\* draw, before the trace event.
C10_AbortWitness ==
    /\ Unchecked
    /\ tracing
    /\ pc = "panicked"
    /\ store[1].animals = <<>>
    /\ events = <<>>

====
